---- MODULE Spec2Model ----
(***************************************************************************)
(* Model of the context-encoder task (deepul_helper/tasks/                 *)
(* context_encoder.py) and of the linear-probe driver                      *)
(* (train_linear_classifier.py).                                           *)
(*                                                                         *)
(* Three specifications share the module:                                  *)
(*   SpecPixel  the tensor data flow of ContextEncoder.forward / .encode,  *)
(*              followed at one tracked element of the batch;              *)
(*   SpecShape  the tensor shapes through the encoder and decoder stacks;  *)
(*   Spec       the driver: start-up, epoch loop, checkpoint files.        *)
(*                                                                         *)
(* Pixel values are integers in units of 1/255, so that the mask constant  *)
(* 2*117.0/255.0 - 1.0 is the integer 2*117 - 255.                         *)
(***************************************************************************)
EXTENDS Integers, Sequences, FiniteSets, TLC

VARIABLES
    \* ---- SpecPixel: ContextEncoder.forward / .encode at a tracked pixel
    px,             \* the tracked element [ch, r, c] of the input (any batch row)
    images,         \* the caller's tensor at px, one entry per run (two runs)
    arg,            \* the caller's tensor at px when the last call was entered
    images_center,  \* forward's images_center at px: {} when px is not in the crop
    images_masked,  \* the tensor handed to self.encoder, at px
    z,              \* what self.encoder's output is computed from at px
    Loss,           \* what forward's Loss is computed from at px
    last_call,      \* "none", "forward" or "encode"
    \* ---- SpecShape: tensor shapes through the layer stacks
    sh_call,        \* "none", "forward" or "encode"
    sh_stage,       \* "input", "encoder", "decoder", "returned"
    sh_idx,         \* layers of the current stack already applied
    in_shape,       \* shape of the images tensor passed to the call
    shape,          \* shape of the tensor flowing through the stack
    z_shape,        \* shape of z once the encoder is done
    ret_shape,      \* shape of the returned latent
    \* ---- Spec: the driver train_linear_classifier.main
    task,           \* args.task
    epochs,         \* args.epochs
    n_train,        \* len(train_loader)
    n_test,         \* len(test_loader)
    model_dir_exists,   \* results/<dataset>_<task> exists
    output_dir_exists,  \* results/<dataset>_<task>/linear_classifier exists
    pretrained_exists,  \* results/<dataset>_<task>/model_best.pth.tar exists
    checkpoint_file,    \* linear_classifier/checkpoint.pth.tar: {} or {record}
    best_file,          \* linear_classifier/model_best.pth.tar: {} or {record}
    pc,             \* position in main
    exc,            \* the exception that ended the run, "none" while running
    model,          \* state of the pretrained model: weights and batch-norm statistics
    mode,           \* model.training: "train" after construction, "eval" after eval()
    lin_version,    \* number of updates of the linear classifier's parameters
    opt_steps,      \* number of optimizer.step() calls (the optimizer's state)
    epoch,          \* the loop variable of main
    batch_i,        \* index of the next batch of the running pass
    acc,            \* the value validate returned for this epoch
    best_acc,       \* best_acc of main
    \* history of the run, read by the properties only
    accs,           \* validation accuracies of the epochs checkpointed so far
    ckpts,          \* the records saved to checkpoint.pth.tar, one per save
    fs0,            \* the files and directories as they were when the run started
    epoch_end_files,    \* the two files as they were after the last completed epoch
    train_passes,   \* calls of train started
    val_passes,     \* calls of validate started
    ckpt_writes,    \* torch.save calls
    best_writes,    \* shutil.copyfile calls
    failed_epoch    \* the epoch in which a batch failed, -1 when none did

pixelVars == <<px, images, arg, images_center, images_masked, z, Loss, last_call>>
shapeVars == <<sh_call, sh_stage, sh_idx, in_shape, shape, z_shape, ret_shape>>
driverVars ==
    <<task, epochs, n_train, n_test, model_dir_exists, output_dir_exists,
      pretrained_exists, checkpoint_file, best_file, pc, exc, model, mode,
      lin_version, opt_steps, epoch, batch_i, acc, best_acc, accs, ckpts, fs0,
      epoch_end_files, train_passes, val_passes, ckpt_writes, best_writes,
      failed_epoch>>
vars == <<pixelVars, shapeVars, driverVars>>

(***************************************************************************)
(* Bounds of the model.                                                    *)
(***************************************************************************)
MaxPixel == 1       \* input pixel values range over 0..MaxPixel (units of 1/255)
MaxBatch == 3       \* batch sizes range over 1..MaxBatch
MaxEpochs == 3      \* args.epochs ranges over 0..MaxEpochs
MaxBatches == 2     \* each loader yields 1..MaxBatches batches
MaxAcc == 2         \* validate returns an accuracy in 0..MaxAcc

(***************************************************************************)
(* Geometry of the context encoder.                                        *)
(***************************************************************************)
ImageSize == 128
InputChannels == 3
CenterOff == 32
CenterSize == 64
Overlap == 4
Scale == 255

Runs == 1..2
PixelValues == 0..MaxPixel
Pixels == [ch : 0..(InputChannels - 1), r : 0..(ImageSize - 1), c : 0..(ImageSize - 1)]

\* Python's half-open slice lo:hi
InSlice(i, lo, hi) == lo <= i /\ i < hi

\* images[:, :, 32:32+64, 32:32+64]
CropLo == CenterOff
CropHi == CropLo + CenterSize

\* 32+4 : 32+64-4
MaskLo == CenterOff + Overlap
MaskHi_noOverlap == CenterOff + CenterSize
MaskHi == CenterOff + CenterSize - Overlap

\* 2 * 117.0/255.0 - 1.0, 2 * 104.0/255.0 - 1.0, 2 * 123.0/255.0 - 1.0 (times 255)
MeanPixel == <<117, 104, 123>>
MaskValue(ch) == 2 * MeanPixel[ch + 1] - Scale

\* t[:, ch, rlo:rhi, clo:chi] = val, seen at element p whose value was cur
AssignSlice(p, cur, ch, lo, hi, val) ==
    IF p.ch = ch /\ InSlice(p.r, lo, hi) /\ InSlice(p.c, lo, hi) THEN val ELSE cur

\* the three slice assignments of forward (lines 61-63)
ForwardMask(p, v) ==
    LET m0 == AssignSlice(p, v, 0, MaskLo, MaskHi, MaskValue(0))
        m1 == AssignSlice(p, m0, 1, MaskLo, MaskHi, MaskValue(1))
    IN  AssignSlice(p, m1, 2, MaskLo, MaskHi, MaskValue(2))

\* the three slice assignments of encode (lines 72-74)
EncodeMask(p, v) ==
    LET m0 == AssignSlice(p, v, 0, MaskLo, MaskHi, MaskValue(0))
        m1 == AssignSlice(p, m0, 1, MaskLo, MaskHi, MaskValue(1))
    IN  AssignSlice(p, m1, 2, MaskLo, MaskHi, MaskValue(2))

\* images[:, :, 32:32+64, 32:32+64].clone() at p: the element, if the crop holds it
CenterCrop_full(p, v) == {v}
CenterCrop(p, v) ==
    IF InSlice(p.r, CropLo, CropHi) /\ InSlice(p.c, CropLo, CropHi) THEN {v} ELSE {}

\* forward masks images.clone(): the caller's tensor keeps its value
CallerAfterForward(orig, masked) == orig

\* encode masks images itself (images_masked = images is an alias)
CallerAfterEncode_clone(orig, masked) == orig
CallerAfterEncode(orig, masked) == masked

(***************************************************************************)
(* The layer stacks.  Conv2d(in, out, k, stride, padding), BatchNorm2d(n), *)
(* activations, ConvTranspose2d(in, out, k, stride, padding).              *)
(***************************************************************************)
Conv(i, o, k, s, p) == [kind |-> "conv", in |-> i, out |-> o, k |-> k, s |-> s, p |-> p]
ConvT(i, o, k, s, p) == [kind |-> "convT", in |-> i, out |-> o, k |-> k, s |-> s, p |-> p]
BN(n) == [kind |-> "bn", in |-> n, out |-> n, k |-> 1, s |-> 1, p |-> 0]
Act == [kind |-> "act", in |-> 0, out |-> 0, k |-> 1, s |-> 1, p |-> 0]

encoder ==
    << Conv(InputChannels, 64, 4, 2, 1), BN(64), Act,
       Conv(64, 64, 4, 2, 1), BN(64), Act,
       Conv(64, 128, 4, 2, 1), BN(128), Act,
       Conv(128, 256, 4, 2, 1), BN(256), Act,
       Conv(256, 512, 4, 2, 1), BN(512), Act,
       Conv(512, 1024, 4, 1, 0) >>

decoder ==
    << BN(1024), Act, ConvT(1024, 512, 4, 1, 0),
       BN(512), Act, ConvT(512, 256, 4, 2, 1),
       BN(256), Act, ConvT(256, 128, 4, 2, 1),
       BN(128), Act, ConvT(128, 64, 4, 2, 1),
       BN(64), Act, ConvT(64, InputChannels, 4, 2, 1),
       Act >>

\* spatial size after a Conv2d: floor((n + 2p - k) / s) + 1
ConvOut_noPad(n, L) == (n - L.k) \div L.s + 1
ConvOut(n, L) == (n + 2 * L.p - L.k) \div L.s + 1

\* spatial size after a ConvTranspose2d: (n - 1) s - 2p + k
ConvTOut(n, L) == (n - 1) * L.s - 2 * L.p + L.k

ShapeError == <<>>

\* shape <<B, C, H, W>> after one layer; a channel mismatch or an input smaller
\* than the kernel is a fatal shape error
ApplyLayer(L, sh) ==
    IF sh = ShapeError THEN ShapeError
    ELSE IF L.kind = "act" THEN sh
    ELSE IF sh[2] # L.in THEN ShapeError
    ELSE IF L.kind = "bn" THEN sh
    ELSE IF L.kind = "conv"
         THEN IF sh[3] + 2 * L.p < L.k \/ sh[4] + 2 * L.p < L.k THEN ShapeError
              ELSE <<sh[1], L.out, ConvOut(sh[3], L), ConvOut(sh[4], L)>>
    ELSE <<sh[1], L.out, ConvTOut(sh[3], L), ConvTOut(sh[4], L)>>

Numel(sh) == sh[1] * sh[2] * sh[3] * sh[4]

\* t.view(n, -1)
View(sh, n) ==
    IF sh = ShapeError \/ Numel(sh) % n # 0 THEN ShapeError ELSE <<n, Numel(sh) \div n>>

\* torch.flatten(t, 1)
Flatten1(sh) == IF sh = ShapeError THEN ShapeError ELSE <<sh[1], sh[2] * sh[3] * sh[4]>>

\* input indices (one axis) that output indices lo..hi of a Conv2d are computed from
ConvWindow(L, w) ==
    IF L.kind = "conv" THEN <<w[1] * L.s - L.p, w[2] * L.s - L.p + L.k - 1>> ELSE w

RECURSIVE WindowThrough(_, _, _)
WindowThrough(stack, n, w) ==
    IF n = 0 THEN w ELSE WindowThrough(stack, n - 1, ConvWindow(stack[n], w))

\* rows (and columns) of the 128 x 128 input that the 1 x 1 output z is computed from
ReceptiveField == WindowThrough(encoder, Len(encoder), <<0, 0>>)

\* self.encoder(t) at p: the network's weights are not fixed by the source, so the
\* output is kept as the input element it is computed from ({} when p lies outside
\* the receptive field); equal inputs give equal outputs
EncoderSees(p, v) ==
    IF /\ InSlice(p.r, ReceptiveField[1], ReceptiveField[2] + 1)
       /\ InSlice(p.c, ReceptiveField[1], ReceptiveField[2] + 1)
    THEN {v} ELSE {}

\* F.mse_loss(self.decoder(z), images_center): kept as its two arguments
MseLoss(zz, center) == [center_recon |-> zz, target |-> center]

NoLoss == [center_recon |-> {}, target |-> {}]

(***************************************************************************)
(* The driver: values and decisions of train_linear_classifier.main        *)
(***************************************************************************)
ValidTasks == {"context_encoder", "rotation", "cpc", "simclr"}
Tasks == ValidTasks \cup {"bogus"}

\* the if / elif chain over args.task: a task of none of the four names reaches else
TaskKnown_any(t) == TRUE
TaskKnown(t) == t \in ValidTasks

\* main constructs every model as Model(args.dataset, n_classes); ContextEncoder's
\* __init__(self) takes no argument, so that call raises TypeError
ConstructorAccepts(t) == t # "context_encoder"

NoModel == [weights |-> "unbuilt", bn_stats |-> "unbuilt"]
FreshModel == [weights |-> "init", bn_stats |-> "init"]
Pretrained == [weights |-> "pretrained", bn_stats |-> "pretrained"]

\* model.eval()
ModeAfterEval_skipped == "train"
ModeAfterEval == "eval"

\* optim.SGD(linear_classifier.parameters(), ...)
OptimizerParams == {"linear_classifier"}

\* with torch.no_grad(): zs = model.encode(images)
EncoderGradEnabled == FALSE

\* the model after one batch: optimizer.step() moves the weights it was given and
\* that received a gradient; a forward pass in training mode moves the batch-norm
\* running statistics
EncoderAfterBatch(enc, m, training) ==
    [weights |-> IF training /\ "encoder" \in OptimizerParams /\ EncoderGradEnabled
                 THEN "updated" ELSE enc.weights,
     bn_stats |-> IF m = "train" THEN "updated" ELSE enc.bn_stats]

\* for epoch in range(args.epochs)
LoopContinues_inclusive(e, n) == e <= n
LoopContinues(e, n) == e < n

\* is_best = acc > best_acc
IsBest_orEqual(a, best) == a >= best
IsBest(a, best) == a > best

\* best_acc = max(acc, best_acc)
NewBest_latest(a, best) == a
NewBest(a, best) == IF a > best THEN a ELSE best

\* no try / except around the batch loops: the exception leaves train, then main
AfterBatchFailure_retry(phase) == phase
AfterBatchFailure(phase) == "raised"

\* the dict main passes to save_checkpoint
CheckpointRecord(e, linv, best, opt) ==
    [run |-> "this", epoch |-> e + 1,
     state_dict |-> [owner |-> "linear_classifier", version |-> linv],
     best_acc |-> best, optimizer |-> opt]

\* a file an earlier run left in the output directory
OldCheckpoint ==
    [run |-> "earlier", epoch |-> 1,
     state_dict |-> [owner |-> "linear_classifier", version |-> 0],
     best_acc |-> 0, optimizer |-> 0]

DriverIdle ==
    /\ task = "rotation"
    /\ epochs = 0
    /\ n_train = 1
    /\ n_test = 1
    /\ model_dir_exists = TRUE
    /\ output_dir_exists = FALSE
    /\ pretrained_exists = TRUE
    /\ checkpoint_file = {}
    /\ best_file = {}
    /\ pc = "not started"
    /\ exc = "none"
    /\ model = NoModel
    /\ mode = "train"
    /\ lin_version = 0
    /\ opt_steps = 0
    /\ epoch = 0
    /\ batch_i = 0
    /\ acc = 0
    /\ best_acc = 0
    /\ accs = <<>>
    /\ ckpts = <<>>
    /\ fs0 = [output_dir |-> FALSE, checkpoint |-> {}, best |-> {}]
    /\ epoch_end_files = <<{}, {}>>
    /\ train_passes = 0
    /\ val_passes = 0
    /\ ckpt_writes = 0
    /\ best_writes = 0
    /\ failed_epoch = -1

(***************************************************************************)
(* SpecPixel                                                               *)
(***************************************************************************)
PixelIdle ==
    /\ px = [ch |-> 0, r |-> 0, c |-> 0]
    /\ images = [i \in Runs |-> 0]
    /\ arg = [i \in Runs |-> 0]
    /\ images_center = [i \in Runs |-> {}]
    /\ images_masked = [i \in Runs |-> {}]
    /\ z = [i \in Runs |-> {}]
    /\ Loss = [i \in Runs |-> NoLoss]
    /\ last_call = "none"

ShapeIdle ==
    /\ sh_call = "none"
    /\ sh_stage = "input"
    /\ sh_idx = 0
    /\ in_shape = <<1, InputChannels, ImageSize, ImageSize>>
    /\ shape = in_shape
    /\ z_shape = ShapeError
    /\ ret_shape = ShapeError

PixelInit ==
    /\ px \in Pixels
    /\ images \in [Runs -> PixelValues]
    /\ arg = images
    /\ images_center = [i \in Runs |-> {}]
    /\ images_masked = [i \in Runs |-> {}]
    /\ z = [i \in Runs |-> {}]
    /\ Loss = [i \in Runs |-> NoLoss]
    /\ last_call = "none"
    /\ ShapeIdle
    /\ DriverIdle

\* ContextEncoder.forward(images), on both runs
Forward ==
    /\ arg' = images
    /\ images_center' = [i \in Runs |-> CenterCrop(px, images[i])]
    /\ images_masked' = [i \in Runs |-> {ForwardMask(px, images[i])}]
    /\ images' = [i \in Runs |-> CallerAfterForward(images[i], ForwardMask(px, images[i]))]
    /\ z' = [i \in Runs |-> EncoderSees(px, ForwardMask(px, images[i]))]
    /\ Loss' = [i \in Runs |-> MseLoss(z'[i], images_center'[i])]
    /\ last_call' = "forward"
    /\ UNCHANGED <<px, shapeVars, driverVars>>

\* ContextEncoder.encode(images), on both runs
Encode ==
    /\ arg' = images
    /\ images_center' = [i \in Runs |-> {}]
    /\ images_masked' = [i \in Runs |-> {EncodeMask(px, images[i])}]
    /\ images' = [i \in Runs |-> CallerAfterEncode(images[i], EncodeMask(px, images[i]))]
    /\ z' = [i \in Runs |-> EncoderSees(px, EncodeMask(px, images[i]))]
    /\ Loss' = [i \in Runs |-> NoLoss]
    /\ last_call' = "encode"
    /\ UNCHANGED <<px, shapeVars, driverVars>>

PixelNext == Forward \/ Encode

SpecPixel == PixelInit /\ [][PixelNext]_vars

(***************************************************************************)
(* SpecShape: the shapes of the tensors of forward and encode, one layer   *)
(* of the nn.Sequential stacks per step.                                   *)
(***************************************************************************)
ShapeInit ==
    /\ sh_call = "none"
    /\ sh_stage = "input"
    /\ sh_idx = 0
    /\ \E B \in 1..MaxBatch : in_shape = <<B, InputChannels, ImageSize, ImageSize>>
    /\ shape = in_shape
    /\ z_shape = ShapeError
    /\ ret_shape = ShapeError
    /\ PixelIdle
    /\ DriverIdle

\* a call of encode or forward enters self.encoder with the (masked) input
BeginCall ==
    /\ sh_call = "none"
    /\ sh_call' \in {"forward", "encode"}
    /\ sh_stage' = "encoder"
    /\ UNCHANGED <<sh_idx, in_shape, shape, z_shape, ret_shape, pixelVars, driverVars>>

\* the next layer of self.encoder
EncoderLayer ==
    /\ sh_stage = "encoder"
    /\ sh_idx < Len(encoder)
    /\ shape' = ApplyLayer(encoder[sh_idx + 1], shape)
    /\ sh_idx' = sh_idx + 1
    /\ UNCHANGED <<sh_call, sh_stage, in_shape, z_shape, ret_shape, pixelVars, driverVars>>

\* encode: return self.encoder(images_masked).view(images.shape[0], -1)
EncodeReturn ==
    /\ sh_call = "encode"
    /\ sh_stage = "encoder"
    /\ sh_idx = Len(encoder)
    /\ z_shape' = shape
    /\ ret_shape' = View(shape, in_shape[1])
    /\ sh_stage' = "returned"
    /\ UNCHANGED <<sh_call, sh_idx, in_shape, shape, pixelVars, driverVars>>

\* forward: z = self.encoder(images_masked), then self.decoder(z)
EnterDecoder ==
    /\ sh_call = "forward"
    /\ sh_stage = "encoder"
    /\ sh_idx = Len(encoder)
    /\ z_shape' = shape
    /\ sh_stage' = "decoder"
    /\ sh_idx' = 0
    /\ UNCHANGED <<sh_call, in_shape, shape, ret_shape, pixelVars, driverVars>>

\* the next layer of self.decoder
DecoderLayer ==
    /\ sh_stage = "decoder"
    /\ sh_idx < Len(decoder)
    /\ shape' = ApplyLayer(decoder[sh_idx + 1], shape)
    /\ sh_idx' = sh_idx + 1
    /\ UNCHANGED <<sh_call, sh_stage, in_shape, z_shape, ret_shape, pixelVars, driverVars>>

\* forward: return dict(Loss=...), torch.flatten(z, 1)
ForwardReturn ==
    /\ sh_call = "forward"
    /\ sh_stage = "decoder"
    /\ sh_idx = Len(decoder)
    /\ ret_shape' = Flatten1(z_shape)
    /\ sh_stage' = "returned"
    /\ UNCHANGED <<sh_call, sh_idx, in_shape, shape, z_shape, pixelVars, driverVars>>

ShapeNext ==
    \/ BeginCall
    \/ EncoderLayer
    \/ EncodeReturn
    \/ EnterDecoder
    \/ DecoderLayer
    \/ ForwardReturn

SpecShape == ShapeInit /\ [][ShapeNext]_vars

(***************************************************************************)
(* Spec: the driver                                                        *)
(***************************************************************************)
argVars == <<task, epochs, n_train, n_test>>
dirVars == <<model_dir_exists, output_dir_exists, pretrained_exists>>
fileVars == <<checkpoint_file, best_file>>
modelVars == <<model, mode, lin_version, opt_steps>>
loopVars == <<epoch, batch_i, acc, best_acc>>
histVars == <<accs, ckpts, fs0, epoch_end_files, ckpt_writes, best_writes>>
passVars == <<train_passes, val_passes>>

Init ==
    /\ task \in Tasks
    /\ epochs \in 0..MaxEpochs
    /\ n_train \in 1..MaxBatches
    /\ n_test \in 1..MaxBatches
    /\ model_dir_exists \in BOOLEAN
    /\ output_dir_exists \in {b \in BOOLEAN : b => model_dir_exists}
    /\ pretrained_exists \in {b \in BOOLEAN : b => model_dir_exists}
    /\ checkpoint_file \in {f \in {{}, {OldCheckpoint}} : f # {} => output_dir_exists}
    /\ best_file \in {f \in {{}, {OldCheckpoint}} : f # {} => output_dir_exists}
    /\ pc = "start"
    /\ exc = "none"
    /\ model = NoModel
    /\ mode = "train"
    /\ lin_version = 0
    /\ opt_steps = 0
    /\ epoch = 0
    /\ batch_i = 0
    /\ acc = 0
    /\ best_acc = 0
    /\ accs = <<>>
    /\ ckpts = <<>>
    /\ fs0 = [output_dir |-> output_dir_exists, checkpoint |-> checkpoint_file,
              best |-> best_file]
    /\ epoch_end_files = <<checkpoint_file, best_file>>
    /\ train_passes = 0
    /\ val_passes = 0
    /\ ckpt_writes = 0
    /\ best_writes = 0
    /\ failed_epoch = -1
    /\ PixelIdle
    /\ ShapeIdle

\* assert osp.exists(model_dir), failing
AssertModelDirFails ==
    /\ pc = "start"
    /\ ~model_dir_exists
    /\ pc' = "raised"
    /\ exc' = "AssertionError"
    /\ UNCHANGED <<argVars, dirVars, fileVars, modelVars, loopVars, histVars,
                   passVars, failed_epoch, pixelVars, shapeVars>>

\* assert osp.exists(model_dir); if not osp.exists(args.output_dir): os.makedirs(...)
MakeOutputDir ==
    /\ pc = "start"
    /\ model_dir_exists
    /\ output_dir_exists' = TRUE
    /\ pc' = "datasets"
    /\ UNCHANGED <<argVars, model_dir_exists, pretrained_exists, fileVars, exc,
                   modelVars, loopVars, histVars, passVars, failed_epoch,
                   pixelVars, shapeVars>>

\* get_datasets(args.dataset, args.task) and the two DataLoaders
GetDatasets ==
    /\ pc = "datasets"
    /\ pc' = "build_model"
    /\ UNCHANGED <<argVars, dirVars, fileVars, exc, modelVars, loopVars, histVars,
                   passVars, failed_epoch, pixelVars, shapeVars>>

\* get_datasets raising (a dataset that is absent)
GetDatasetsFails ==
    /\ pc = "datasets"
    /\ pc' = "raised"
    /\ exc' = "DatasetError"
    /\ UNCHANGED <<argVars, dirVars, fileVars, modelVars, loopVars, histVars,
                   passVars, failed_epoch, pixelVars, shapeVars>>

\* else: raise Exception('Invalid task:', args.task)
BuildModelInvalidTask ==
    /\ pc = "build_model"
    /\ ~TaskKnown(task)
    /\ pc' = "raised"
    /\ exc' = "Exception"
    /\ UNCHANGED <<argVars, dirVars, fileVars, modelVars, loopVars, histVars,
                   passVars, failed_epoch, pixelVars, shapeVars>>

\* model = ContextEncoder(args.dataset, n_classes), which __init__(self) rejects
BuildModelTypeError ==
    /\ pc = "build_model"
    /\ TaskKnown(task)
    /\ ~ConstructorAccepts(task)
    /\ pc' = "raised"
    /\ exc' = "TypeError"
    /\ UNCHANGED <<argVars, dirVars, fileVars, modelVars, loopVars, histVars,
                   passVars, failed_epoch, pixelVars, shapeVars>>

\* model = RotationPrediction(...) | CPC(...) | SimCLR(...)
BuildModel ==
    /\ pc = "build_model"
    /\ TaskKnown(task)
    /\ ConstructorAccepts(task)
    /\ model' = FreshModel
    /\ mode' = "train"
    /\ pc' = "load"
    /\ UNCHANGED <<argVars, dirVars, fileVars, exc, lin_version, opt_steps, loopVars,
                   histVars, passVars, failed_epoch, pixelVars, shapeVars>>

\* torch.load(model_path) with no file at model_path
LoadPretrainedFails ==
    /\ pc = "load"
    /\ ~pretrained_exists
    /\ pc' = "raised"
    /\ exc' = "FileNotFoundError"
    /\ UNCHANGED <<argVars, dirVars, fileVars, modelVars, loopVars, histVars,
                   passVars, failed_epoch, pixelVars, shapeVars>>

\* torch.load, model.load_state_dict(state_dict), model.eval()
LoadPretrained ==
    /\ pc = "load"
    /\ pretrained_exists
    /\ model' = Pretrained
    /\ mode' = ModeAfterEval
    /\ pc' = "classifier"
    /\ UNCHANGED <<argVars, dirVars, fileVars, exc, lin_version, opt_steps, loopVars,
                   histVars, passVars, failed_epoch, pixelVars, shapeVars>>

\* linear_classifier = model.construct_classifier().cuda(); optimizer = optim.SGD(...);
\* best_acc = 0
ConstructClassifier ==
    /\ pc = "classifier"
    /\ lin_version' = 0
    /\ opt_steps' = 0
    /\ best_acc' = 0
    /\ epoch' = 0
    /\ pc' = "epoch_head"
    /\ UNCHANGED <<argVars, dirVars, fileVars, exc, model, mode, batch_i, acc,
                   histVars, passVars, failed_epoch, pixelVars, shapeVars>>

\* the for loop takes its next epoch and calls train
EnterEpoch ==
    /\ pc = "epoch_head"
    /\ LoopContinues(epoch, epochs)
    /\ pc' = "train"
    /\ batch_i' = 0
    /\ train_passes' = train_passes + 1
    /\ UNCHANGED <<argVars, dirVars, fileVars, exc, modelVars, epoch, acc, best_acc,
                   histVars, val_passes, failed_epoch, pixelVars, shapeVars>>

\* range(args.epochs) is exhausted: main returns
Finish ==
    /\ pc = "epoch_head"
    /\ ~LoopContinues(epoch, epochs)
    /\ pc' = "done"
    /\ UNCHANGED <<argVars, dirVars, fileVars, exc, modelVars, loopVars, histVars,
                   passVars, failed_epoch, pixelVars, shapeVars>>

\* one iteration of train's batch loop: encode under no_grad, linear forward,
\* cross entropy, zero_grad, backward, optimizer.step()
TrainBatch ==
    /\ pc = "train"
    /\ batch_i < n_train
    /\ model' = EncoderAfterBatch(model, mode, TRUE)
    /\ lin_version' = lin_version + 1
    /\ opt_steps' = opt_steps + 1
    /\ batch_i' = batch_i + 1
    /\ UNCHANGED <<argVars, dirVars, fileVars, pc, exc, mode, epoch, acc, best_acc,
                   histVars, passVars, failed_epoch, pixelVars, shapeVars>>

\* an exception in an iteration of train's batch loop
TrainBatchFails ==
    /\ pc = "train"
    /\ batch_i < n_train
    /\ pc' = AfterBatchFailure("train")
    /\ exc' = "BatchError"
    /\ failed_epoch' = epoch
    /\ UNCHANGED <<argVars, dirVars, fileVars, modelVars, loopVars, histVars,
                   passVars, pixelVars, shapeVars>>

\* train returns; main calls validate
TrainDone ==
    /\ pc = "train"
    /\ batch_i = n_train
    /\ pc' = "validate"
    /\ batch_i' = 0
    /\ val_passes' = val_passes + 1
    /\ UNCHANGED <<argVars, dirVars, fileVars, exc, modelVars, epoch, acc, best_acc,
                   histVars, train_passes, failed_epoch, pixelVars, shapeVars>>

\* one iteration of validate's batch loop, all of it under no_grad
ValBatch ==
    /\ pc = "validate"
    /\ batch_i < n_test
    /\ model' = EncoderAfterBatch(model, mode, FALSE)
    /\ batch_i' = batch_i + 1
    /\ UNCHANGED <<argVars, dirVars, fileVars, pc, exc, mode, lin_version, opt_steps,
                   epoch, acc, best_acc, histVars, passVars, failed_epoch,
                   pixelVars, shapeVars>>

\* an exception in an iteration of validate's batch loop
ValBatchFails ==
    /\ pc = "validate"
    /\ batch_i < n_test
    /\ pc' = AfterBatchFailure("validate")
    /\ exc' = "BatchError"
    /\ failed_epoch' = epoch
    /\ UNCHANGED <<argVars, dirVars, fileVars, modelVars, loopVars, histVars,
                   passVars, pixelVars, shapeVars>>

\* validate returns top1.avg
ValDone ==
    /\ pc = "validate"
    /\ batch_i = n_test
    /\ acc' \in 0..MaxAcc
    /\ pc' = "checkpoint"
    /\ UNCHANGED <<argVars, dirVars, fileVars, exc, modelVars, epoch, batch_i,
                   best_acc, histVars, passVars, failed_epoch, pixelVars, shapeVars>>

\* is_best, best_acc, save_checkpoint: torch.save(state, checkpoint.pth.tar), then
\* shutil.copyfile to model_best.pth.tar if is_best
Checkpoint ==
    /\ pc = "checkpoint"
    /\ LET is_best == IsBest(acc, best_acc)
           state == CheckpointRecord(epoch, lin_version, NewBest(acc, best_acc), opt_steps)
       IN  /\ best_acc' = NewBest(acc, best_acc)
           /\ checkpoint_file' = {state}
           /\ best_file' = IF is_best THEN {state} ELSE best_file
           /\ best_writes' = IF is_best THEN best_writes + 1 ELSE best_writes
           /\ ckpts' = Append(ckpts, state)
    /\ ckpt_writes' = ckpt_writes + 1
    /\ accs' = Append(accs, acc)
    /\ epoch_end_files' = <<checkpoint_file', best_file'>>
    /\ epoch' = epoch + 1
    /\ pc' = "epoch_head"
    /\ UNCHANGED <<argVars, dirVars, exc, modelVars, batch_i, acc, fs0, passVars,
                   failed_epoch, pixelVars, shapeVars>>

Next ==
    \/ AssertModelDirFails
    \/ MakeOutputDir
    \/ GetDatasets
    \/ GetDatasetsFails
    \/ BuildModelInvalidTask
    \/ BuildModelTypeError
    \/ BuildModel
    \/ LoadPretrainedFails
    \/ LoadPretrained
    \/ ConstructClassifier
    \/ EnterEpoch
    \/ Finish
    \/ TrainBatch
    \/ TrainBatchFails
    \/ TrainDone
    \/ ValBatch
    \/ ValBatchFails
    \/ ValDone
    \/ Checkpoint

Spec == Init /\ [][Next]_vars

(***************************************************************************)
(* Properties of ContextEncoder                                            *)
(***************************************************************************)
\* the 56 x 56 inner region and the 64 x 64 center, as the specification states them
InInner(p) == p.r \in 36..91 /\ p.c \in 36..91
InCenter(p) == p.r \in 32..95 /\ p.c \in 32..95
ChannelConstant(ch) ==
    CASE ch = 0 -> 2 * 117 - 255
      [] ch = 1 -> 2 * 104 - 255
      [] ch = 2 -> 2 * 123 - 255
ExpectedMasked(p, v) == IF InInner(p) THEN ChannelConstant(p.ch) ELSE v

\* C2: after forward and after encode alike, the tensor handed to the encoder holds
\* the channel's constant at every pixel of rows and columns 36..91 and the input
\* value at every other pixel (the 4-pixel border of the center included), so both
\* methods feed the encoder the same masked image.
C2_MaskExactlyInner ==
    last_call # "none" =>
        \A i \in Runs :
            /\ images_masked[i] = {ExpectedMasked(px, arg[i])}
            /\ ForwardMask(px, arg[i]) = EncodeMask(px, arg[i])

C2_Witness ==
    /\ last_call = "encode"
    /\ px = [ch |-> 1, r |-> 91, c |-> 36]
    /\ arg[1] = 1
    /\ images_masked[1] = {-47}

\* C3 as stated: two images that agree on the 64 x 64 center and differ only outside
\* it (here: at the tracked pixel) give the same Loss.
C3_LossIgnoresOutside ==
    (last_call = "forward" /\ ~InCenter(px)) => Loss[1] = Loss[2]

\* C3 amended: for two images that differ only outside the center, forward compares
\* its reconstruction with the same ground-truth crop; the Loss differs only through
\* the encoder input, which keeps every pixel outside the inner region.
C3_TargetIgnoresOutside ==
    (last_call = "forward" /\ ~InCenter(px)) =>
        /\ images_center[1] = images_center[2]
        /\ Loss[1].target = Loss[2].target
        /\ \A i \in Runs : images_masked[i] = {arg[i]}
        /\ (Loss[1] # Loss[2] => images_masked[1] # images_masked[2])

C3_Witness ==
    /\ last_call = "forward"
    /\ ~InCenter(px)
    /\ arg[1] # arg[2]
    /\ Loss[1] # Loss[2]
    /\ images_center[1] = images_center[2]

\* C10: forward leaves the caller's tensor as it was passed and takes the
\* ground-truth crop from the unmasked input; encode leaves the caller's tensor
\* equal to the masked image.
C10_CallerTensor ==
    /\ last_call = "forward" =>
          \A i \in Runs :
              /\ images[i] = arg[i]
              /\ images_center[i] = (IF InCenter(px) THEN {arg[i]} ELSE {})
    /\ last_call = "encode" =>
          \A i \in Runs :
              /\ images[i] = ExpectedMasked(px, arg[i])
              /\ images_masked[i] = {images[i]}

C10_Witness ==
    /\ last_call = "encode"
    /\ InInner(px)
    /\ arg[1] = 1
    /\ images[1] # arg[1]

\* C4: encode returns a (B, 1024) tensor for every batch size B; the encoder's
\* convolutions take the spatial size through 128, 64, 32, 16, 8, 4, 1 and end with
\* 1024 channels.
C4_EncodeShape ==
    /\ (sh_stage = "encoder" /\ shape # ShapeError) =>
          LET convs == (sh_idx + 2) \div 3
          IN  /\ shape[3] = <<128, 64, 32, 16, 8, 4, 1>>[convs + 1]
              /\ shape[4] = shape[3]
              /\ shape[1] = in_shape[1]
              /\ (sh_idx = 16 => shape[2] = 1024)
    /\ (sh_call = "encode" /\ sh_stage = "returned") =>
          /\ z_shape = <<in_shape[1], 1024, 1, 1>>
          /\ ret_shape = <<in_shape[1], 1024>>

C4_Witness ==
    /\ sh_call = "encode"
    /\ sh_stage = "returned"
    /\ in_shape[1] = 3
    /\ ret_shape = <<3, 1024>>

(***************************************************************************)
(* Properties of the driver                                                *)
(***************************************************************************)
\* the largest of 0 and the entries of a sequence of accuracies
SeqMax(sq) ==
    LET S == {sq[k] : k \in 1..Len(sq)} \cup {0}
    IN  CHOOSE m \in S : \A x \in S : x <= m

\* the first epoch (1-based) whose accuracy is the largest of the sequence
FirstMaxIndex(sq) ==
    CHOOSE k \in 1..Len(sq) : sq[k] = SeqMax(sq) /\ \A j \in 1..(k - 1) : sq[j] < sq[k]

InEpochLoop == pc \in {"epoch_head", "train", "validate", "checkpoint", "done"}

\* C1: model_best.pth.tar is written only by the checkpoint step of an epoch whose
\* validation accuracy is strictly greater than 0 and than the accuracy of every
\* earlier epoch; an epoch with an equal or lower accuracy leaves the file as it is.
C1_BestOnlyOnStrictIncrease ==
    [][(best_file' # best_file \/ best_writes' # best_writes)
          => (pc = "checkpoint" /\ acc > SeqMax(accs))]_vars

C1_Witness ==
    /\ pc = "epoch_head"
    /\ accs = <<1, 1, 2>>
    /\ best_writes = 2
    /\ best_file = {ckpts[3]}

\* C5: every epoch runs train, then validate, then the checkpoint write; a train pass
\* starts only when every earlier epoch has written its checkpoint;
\* checkpoint.pth.tar is written once per completed epoch, and a run that ends
\* normally has run exactly args.epochs epochs.
C5_EpochOrder ==
    /\ pc = "epoch_head" =>
          train_passes = epoch /\ val_passes = epoch /\ ckpt_writes = epoch
    /\ pc = "train" =>
          train_passes = epoch + 1 /\ val_passes = epoch /\ ckpt_writes = epoch
    /\ pc \in {"validate", "checkpoint"} =>
          train_passes = epoch + 1 /\ val_passes = epoch + 1 /\ ckpt_writes = epoch
    /\ pc = "done" =>
          /\ epoch = epochs
          /\ train_passes = epochs /\ val_passes = epochs /\ ckpt_writes = epochs
    /\ epoch <= epochs
    /\ Len(ckpts) = ckpt_writes

C5_Witness ==
    /\ pc = "done"
    /\ epochs = 3
    /\ ckpt_writes = 3
    /\ train_passes = 3

\* C6 as stated: when the task is none of the four and the generic exception is
\* raised, the run has changed nothing on the filesystem.
C6_NothingChanged ==
    (task \notin {"context_encoder", "rotation", "cpc", "simclr"}
        /\ pc = "raised" /\ exc = "Exception")
    => /\ output_dir_exists = fs0.output_dir
       /\ checkpoint_file = fs0.checkpoint
       /\ best_file = fs0.best

\* C6 amended: with a task that is none of the four the run ends with an exception
\* before any model is built (the generic Exception, unless the assert on the model
\* directory or get_datasets raised first): no pretrained checkpoint is loaded, no
\* epoch runs, no checkpoint file is written; the one change the run can have made
\* on the filesystem is the creation of the output directory.
C6_InvalidTaskHalts ==
    task \notin {"context_encoder", "rotation", "cpc", "simclr"} =>
        /\ pc \in {"start", "datasets", "build_model", "raised"}
        /\ pc = "raised" => exc \in {"AssertionError", "DatasetError", "Exception"}
        /\ (pc = "raised" /\ exc = "Exception") => (model_dir_exists /\ output_dir_exists)
        /\ model = NoModel
        /\ train_passes = 0 /\ val_passes = 0 /\ epoch = 0
        /\ ckpt_writes = 0 /\ best_writes = 0
        /\ checkpoint_file = fs0.checkpoint
        /\ best_file = fs0.best
        /\ output_dir_exists # fs0.output_dir => (output_dir_exists /\ pc # "start")

C6_Witness ==
    /\ task = "bogus"
    /\ pc = "raised"
    /\ exc = "Exception"
    /\ output_dir_exists
    /\ ~fs0.output_dir
    /\ checkpoint_file = {}

\* C7: once a batch of a train or validation pass has failed the run is over: no
\* further step is taken, the failing epoch has written no checkpoint, and both
\* files are as the last completed epoch (or the start of the run) left them.
C7_FailedBatchAborts ==
    /\ [](failed_epoch # -1 =>
            /\ pc = "raised"
            /\ exc = "BatchError"
            /\ epoch = failed_epoch
            /\ ckpt_writes = failed_epoch
            /\ Len(ckpts) = failed_epoch
            /\ <<checkpoint_file, best_file>> = epoch_end_files
            /\ (failed_epoch > 0 => checkpoint_file = {ckpts[failed_epoch]}))
    /\ [][failed_epoch # -1 => UNCHANGED driverVars]_vars

C7_Witness ==
    /\ failed_epoch = 2
    /\ pc = "raised"
    /\ val_passes = 3
    /\ ckpt_writes = 2
    /\ checkpoint_file = {ckpts[2]}

\* C8: from the moment the pretrained weights are loaded the model never changes,
\* whatever number of train steps, validation steps and checkpoint writes follow;
\* the train steps change the linear classifier and the optimizer, and every saved
\* state_dict is the linear classifier's.
C8_EncoderFrozen ==
    /\ (InEpochLoop \/ pc = "classifier" \/ failed_epoch # -1) => model = Pretrained
    /\ model.weights # "updated" /\ model.bn_stats # "updated"
    /\ InEpochLoop =>
          /\ lin_version = opt_steps
          /\ lin_version >= epoch * n_train
    /\ \A k \in 1..Len(ckpts) :
          /\ ckpts[k].state_dict.owner = "linear_classifier"
          /\ ckpts[k].state_dict.version = k * n_train
          /\ ckpts[k].optimizer = k * n_train

C8_Witness ==
    /\ pc = "done"
    /\ epochs = 2
    /\ lin_version = 4
    /\ model = Pretrained
    /\ Len(ckpts) = 2

\* C9: after each completed epoch checkpoint.pth.tar holds epoch = number of
\* completed epochs and best_acc = the largest of 0 and the accuracies so far, so
\* the saved best_acc never decreases; once this run has written
\* model_best.pth.tar, that file is the checkpoint of the earliest epoch that
\* reached the running maximum and carries the latest checkpoint's best_acc.
C9_CheckpointContents ==
    /\ Len(ckpts) = Len(accs)
    /\ \A k \in 1..Len(ckpts) :
          /\ ckpts[k].epoch = k
          /\ ckpts[k].best_acc = SeqMax(SubSeq(accs, 1, k))
          /\ k > 1 => ckpts[k - 1].best_acc <= ckpts[k].best_acc
    /\ (InEpochLoop /\ pc # "checkpoint" /\ epoch > 0) =>
          /\ Len(ckpts) = epoch
          /\ checkpoint_file = {ckpts[epoch]}
    /\ ckpts # <<>> => checkpoint_file = {ckpts[Len(ckpts)]}
    /\ best_writes > 0 =>
          /\ best_file = {ckpts[FirstMaxIndex(accs)]}
          /\ \A f \in best_file : \A g \in checkpoint_file : f.best_acc = g.best_acc
    /\ best_writes = 0 => best_file = fs0.best

C9_Witness ==
    /\ pc = "done"
    /\ accs = <<1, 2, 2>>
    /\ best_file = {ckpts[2]}
    /\ checkpoint_file = {ckpts[3]}
    /\ ckpts[3].best_acc = 2

====
